---- MODULE Spec2Model ----
(***************************************************************************)
(* Model of ekz_inf.cpp: the DatabaseConnection wrapper, the role classes  *)
(* Admin / Manager / Customer built on it, and the menu loop of main().    *)
(*                                                                         *)
(* Two specifications share the wrapper and the role operations:           *)
(*   Spec     the program: main()'s menu loop;                             *)
(*   SpecOps  the classes' public interface, driven by an arbitrary caller *)
(*            (any role, any operation, any argument of the test sets).    *)
(* The SQL client library and the database are the environment: every     *)
(* library call that can throw may throw, and a committed statement acts   *)
(* on the tables as its SQL text says.                                     *)
(***************************************************************************)
EXTENDS Integers, Sequences, FiniteSets

VARIABLES
    pc,          \* where main() (or the driver) is
    running,     \* main: bool running
    choice,      \* main: int choice, as the switch sees it
    supplied,    \* what the user typed at the last prompt
    cinFail,     \* std::cin's failbit
    iter,        \* loop iterations begun
    out,         \* std::cout lines since the menu was last shown (under the
                 \* driver: of the last call)
    step,        \* main: next statement of the current case block
    objs,        \* live role objects: id -> [role, conn, issued], issued the
                 \* number of statements passed to the object's wrapper
    conns,       \* ids of the open database connections
    nextId,      \* next fresh object / connection id
    frame,       \* the role operation being executed: <<>> or <<record>>
    db,          \* the database tables
    lastConnect, \* outcome of the last DatabaseConnection constructor
    ncalls       \* driver: role operations invoked so far

vars == <<pc, running, choice, supplied, cinFail, iter, out, step, objs, conns,
          nextId, frame, db, lastConnect, ncalls>>

-----------------------------------------------------------------------------
(* Bounds of the exploration *)

MaxIter == 2     \* iterations of main()'s loop
MaxCalls == 2    \* role operations the driver invokes
MaxObjs == 2     \* role objects the driver constructs

INT_MAX == 2147483647

-----------------------------------------------------------------------------
(* std::to_string *)

Digit(d) ==
    CASE d = 0 -> "0" [] d = 1 -> "1" [] d = 2 -> "2" [] d = 3 -> "3"
      [] d = 4 -> "4" [] d = 5 -> "5" [] d = 6 -> "6" [] d = 7 -> "7"
      [] d = 8 -> "8" [] d = 9 -> "9"

RECURSIVE NatToString(_)
NatToString(n) ==
    IF n < 10 THEN Digit(n) ELSE NatToString(n \div 10) \o Digit(n % 10)

\* std::to_string(int): "%d"
to_string(n) == IF n < 0 THEN "-" \o NatToString(-n) ELSE NatToString(n)

\* A double literal with two decimals is kept as its number of hundredths
\* (9.99 is 999).  std::to_string(double) formats with "%f": six decimals.
FractionDigits(h) == Digit((h % 100) \div 10) \o Digit(h % 10) \o "0000"

to_string_double(h) == NatToString(h \div 100) \o "." \o FractionDigits(h)

-----------------------------------------------------------------------------
(* The statements of the role classes *)

SqlSelectStatus == "SELECT status FROM orders WHERE order_id = $1"
SqlInsertOrder == "INSERT INTO orders (status) VALUES ($1)"
SqlUpdateStatus == "UPDATE orders SET status = $1 WHERE order_id = $2"
SqlInsertProduct ==
    "INSERT INTO products (name, price, stock_quantity) VALUES ($1, $2, $3)"
SqlDeleteProduct == "DELETE FROM products WHERE product_id = $1"
SqlInsertItem ==
    "INSERT INTO order_items (order_id, product_id, quantity) VALUES ($1, $2, $3)"
SqlDeleteItem == "DELETE FROM order_items WHERE order_id = $1 AND product_id = $2"

Roles == {"Admin", "Manager", "Customer"}

SharedOps == {"viewOrderStatus", "createOrder", "cancelOrder", "returnOrder"}

\* The member functions each class defines
RoleOps(role) ==
    CASE role = "Admin" -> SharedOps \cup {"addProduct", "deleteProduct"}
      [] role = "Manager" -> SharedOps \cup {"approveOrder"}
      [] role = "Customer" -> SharedOps \cup {"addToOrder", "removeFromOrder"}

\* Each member function: the line it prints, the wrapper method it calls, the
\* statement, the parameter vector, and the message its catch block logs.
viewOrderStatus(role, a) ==
    [line |-> <<"Viewing status of order ID ", to_string(a[1]), " as ", role, ".">>,
     method |-> "executeQuery", sql |-> SqlSelectStatus,
     params |-> <<to_string(a[1])>>, errmsg |-> "Error viewing order status"]

createOrder(role, a) ==
    [line |-> <<role, " creates a new order.">>,
     method |-> "executeNonQuery", sql |-> SqlInsertOrder,
     params |-> <<"pending">>, errmsg |-> "Error creating order"]

\* Variant: another spelling of the status
cancelOrderMisspelt(role, a) ==
    [line |-> <<role, " cancels order ID ", to_string(a[1])>>,
     method |-> "executeNonQuery", sql |-> SqlUpdateStatus,
     params |-> <<"cancelled", to_string(a[1])>>, errmsg |-> "Error canceling order"]

cancelOrder(role, a) ==
    [line |-> <<role, " cancels order ID ", to_string(a[1])>>,
     method |-> "executeNonQuery", sql |-> SqlUpdateStatus,
     params |-> <<"canceled", to_string(a[1])>>, errmsg |-> "Error canceling order"]

returnOrder(role, a) ==
    [line |-> <<role, " returns order ID ", to_string(a[1])>>,
     method |-> "executeNonQuery", sql |-> SqlUpdateStatus,
     params |-> <<"returned", to_string(a[1])>>, errmsg |-> "Error returning order"]

\* Variant: stock bound before price
addProductStockFirst(role, a) ==
    [line |-> <<role, " adds a new product: ", a[1]>>,
     method |-> "executeNonQuery", sql |-> SqlInsertProduct,
     params |-> <<a[1], to_string(a[3]), to_string_double(a[2])>>,
     errmsg |-> "Error adding product"]

addProduct(role, a) ==
    [line |-> <<role, " adds a new product: ", a[1]>>,
     method |-> "executeNonQuery", sql |-> SqlInsertProduct,
     params |-> <<a[1], to_string_double(a[2]), to_string(a[3])>>,
     errmsg |-> "Error adding product"]

deleteProduct(role, a) ==
    [line |-> <<role, " deletes product with ID: ", to_string(a[1])>>,
     method |-> "executeNonQuery", sql |-> SqlDeleteProduct,
     params |-> <<to_string(a[1])>>, errmsg |-> "Error deleting product"]

approveOrder(role, a) ==
    [line |-> <<role, " approves order ID ", to_string(a[1])>>,
     method |-> "executeNonQuery", sql |-> SqlUpdateStatus,
     params |-> <<"approved", to_string(a[1])>>, errmsg |-> "Error approving order"]

addToOrder(role, a) ==
    [line |-> <<role, " adds product ID ", to_string(a[2]), " to order ID ", to_string(a[1])>>,
     method |-> "executeNonQuery", sql |-> SqlInsertItem,
     params |-> <<to_string(a[1]), to_string(a[2]), to_string(a[3])>>,
     errmsg |-> "Error adding product to order"]

removeFromOrder(role, a) ==
    [line |-> <<role, " removes product ID ", to_string(a[2]), " from order ID ", to_string(a[1])>>,
     method |-> "executeNonQuery", sql |-> SqlDeleteItem,
     params |-> <<to_string(a[1]), to_string(a[2])>>,
     errmsg |-> "Error removing product from order"]

\* Virtual dispatch: the body of role::op(args)
Body(role, op, a) ==
    CASE op = "viewOrderStatus" -> viewOrderStatus(role, a)
      [] op = "createOrder" -> createOrder(role, a)
      [] op = "cancelOrder" -> cancelOrder(role, a)
      [] op = "returnOrder" -> returnOrder(role, a)
      [] op = "addProduct" -> addProduct(role, a)
      [] op = "deleteProduct" -> deleteProduct(role, a)
      [] op = "approveOrder" -> approveOrder(role, a)
      [] op = "addToOrder" -> addToOrder(role, a)
      [] op = "removeFromOrder" -> removeFromOrder(role, a)

-----------------------------------------------------------------------------
(* The database: what a committed statement does to the tables *)

Statuses == {"pending", "approved", "canceled", "returned"}

\* Integer columns receive their values as text; the server parses them.
ParseRange == 0 .. 120
ParseTable == [i \in ParseRange |-> to_string(i)]
ParseOK(s) == \E i \in ParseRange : ParseTable[i] = s
ParseInt(s) == CHOOSE i \in ParseRange : ParseTable[i] = s

\* The positions of a statement's parameters that go to integer columns
IntParams(sql) ==
    CASE sql = SqlSelectStatus -> {1}
      [] sql = SqlInsertOrder -> {}
      [] sql = SqlUpdateStatus -> {2}
      [] sql = SqlInsertProduct -> {3}
      [] sql = SqlDeleteProduct -> {1}
      [] sql = SqlInsertItem -> {1, 2, 3}
      [] sql = SqlDeleteItem -> {1, 2}

Placeholders(sql) ==
    CASE sql = SqlSelectStatus -> 1
      [] sql = SqlInsertOrder -> 1
      [] sql = SqlUpdateStatus -> 2
      [] sql = SqlInsertProduct -> 3
      [] sql = SqlDeleteProduct -> 1
      [] sql = SqlInsertItem -> 3
      [] sql = SqlDeleteItem -> 2

\* A statement the server can execute: every placeholder bound, integers parse
WellFormed(sql, p) ==
    /\ Len(p) = Placeholders(sql)
    /\ \A i \in IntParams(sql) : ParseOK(p[i])

\* order_id and product_id are the row numbers (serial keys); a deleted
\* product keeps its number and is marked not live.
Apply(d, sql, p) ==
    CASE sql = SqlSelectStatus -> d
      [] sql = SqlInsertOrder -> [d EXCEPT !.orders = Append(@, p[1])]
      [] sql = SqlUpdateStatus ->
            IF ParseInt(p[2]) \in DOMAIN d.orders
            THEN [d EXCEPT !.orders[ParseInt(p[2])] = p[1]]
            ELSE d
      [] sql = SqlInsertProduct ->
            [d EXCEPT !.products =
                Append(@, [name |-> p[1], price |-> p[2], stock |-> p[3],
                           live |-> TRUE])]
      [] sql = SqlDeleteProduct ->
            IF ParseInt(p[1]) \in DOMAIN d.products
            THEN [d EXCEPT !.products[ParseInt(p[1])].live = FALSE]
            ELSE d
      [] sql = SqlInsertItem ->
            [d EXCEPT !.items =
                Append(@, <<ParseInt(p[1]), ParseInt(p[2]), ParseInt(p[3])>>)]
      [] sql = SqlDeleteItem ->
            LET keep(r) == ~(r[1] = ParseInt(p[1]) /\ r[2] = ParseInt(p[2]))
            IN  [d EXCEPT !.items = SelectSeq(@, keep)]

\* The rows a statement returns, every field as text
Rows(d, sql, p) ==
    IF sql = SqlSelectStatus /\ ParseInt(p[1]) \in DOMAIN d.orders
    THEN << <<d.orders[ParseInt(p[1])]>> >>
    ELSE <<>>

InitDBs ==
    {[orders |-> o, products |-> <<>>, items |-> <<>>] :
        o \in {<<>>, <<"pending">>}}

-----------------------------------------------------------------------------
(* DatabaseConnection *)

\* The constructor: conn(connStr), then the is_open() test.  On failure it
\* throws and no wrapper exists.
Construct(role, ok) ==
    /\ lastConnect' = IF ok THEN "ok" ELSE "failed"
    /\ IF ok
       THEN /\ objs' = [o \in DOMAIN objs \cup {nextId} |->
                           IF o = nextId
                           THEN [role |-> role, conn |-> nextId,
                                 issued |-> 0]
                           ELSE objs[o]]
            /\ conns' = conns \cup {nextId}
            /\ nextId' = nextId + 1
       ELSE UNCHANGED <<objs, conns, nextId>>

\* Variant: the destructor does not close the connection
DestroyWithoutClose(o) ==
    /\ conns' = conns
    /\ objs' = [x \in DOMAIN objs \ {o} |-> objs[x]]

\* ~DatabaseConnection, run when the role object that owns it is destroyed
Destroy(o) ==
    /\ conns' = conns \ {objs[o].conn}
    /\ objs' = [x \in DOMAIN objs \ {o} |-> objs[x]]

\* Variant: the role objects share one connection
SharedConn(self) == CHOOSE c \in conns : TRUE

\* dbConn: the wrapper a role object's member functions call
OwnedConn(self) == objs[self].conn

\* The error line each wrapper method logs in its catch block
WrapperErrMsg(method) ==
    IF method = "executeQuery" THEN "Error executing query"
    ELSE "Error executing non-query"

\* A role operation up to its call of the wrapper: prints its line after
\* the lines already there and calls dbConn.executeQuery or
\* dbConn.executeNonQuery with one statement.
OpEnter(self, op, a, printed) ==
    LET b == Body(objs[self].role, op, a)
        c == OwnedConn(self)
    IN  /\ frame' = <<[self |-> self, op |-> op, args |-> a, conn |-> c,
                       method |-> b.method, sql |-> b.sql, params |-> b.params,
                       errmsg |-> b.errmsg, stage |-> "open", bound |-> <<>>,
                       txn |-> "none", commits |-> 0, rollbacks |-> 0,
                       exc |-> "none", err |-> "none", logged |-> <<>>,
                       result |-> <<>>]>>
        /\ out' = Append(printed, b.line)
        /\ objs' = [objs EXCEPT ![self].issued = @ + 1]

Throw(f, what, to) == [f EXCEPT !.exc = what, !.err = what, !.stage = to]

\* pqxx::work txn(conn) / pqxx::nontransaction ntx(conn): declared before the
\* try block, so a throw here leaves the method past its catch block.
TxnOpen ==
    /\ frame # <<>>
    /\ frame[1].stage = "open"
    /\ \E ok \in BOOLEAN :
         frame' = <<IF ok
                    THEN [frame[1] EXCEPT
                            !.txn = IF frame[1].method = "executeNonQuery"
                                    THEN "active" ELSE "none",
                            !.stage = "prepare"]
                    ELSE Throw(frame[1], "begin", "op_catch")>>
    /\ UNCHANGED <<pc, running, choice, supplied, cinFail, iter, out, step,
                   objs, conns, nextId, db, lastConnect, ncalls>>

\* pqxx::prepare::named(stmt, query) and the loop binding params[i] to $i+1
Prepare ==
    /\ frame # <<>>
    /\ frame[1].stage = "prepare"
    /\ \E r \in {"ok", "prepare", "bind"} :
         frame' = <<IF r = "ok"
                    THEN [frame[1] EXCEPT !.bound = frame[1].params,
                                          !.stage = "exec"]
                    ELSE Throw(frame[1], r, "wrapper_catch")>>
    /\ UNCHANGED <<pc, running, choice, supplied, cinFail, iter, out, step,
                   objs, conns, nextId, db, lastConnect, ncalls>>

\* txn.exec(stmt) / ntx.exec(stmt).  executeQuery then copies the rows into
\* the vector it returns (the nontransaction has already made its effect).
Exec ==
    /\ frame # <<>>
    /\ frame[1].stage = "exec"
    /\ \E ok \in BOOLEAN :
         /\ ok => WellFormed(frame[1].sql, frame[1].bound)
         /\ frame' = <<IF ~ok
                       THEN Throw(frame[1], "exec", "wrapper_catch")
                       ELSE IF frame[1].method = "executeNonQuery"
                       THEN [frame[1] EXCEPT !.stage = "commit"]
                       ELSE [frame[1] EXCEPT
                               !.result = Rows(db, frame[1].sql, frame[1].bound),
                               !.stage = "op_return"]>>
         /\ db' = IF ok /\ frame[1].method = "executeQuery"
                  THEN Apply(db, frame[1].sql, frame[1].bound)
                  ELSE db
    /\ UNCHANGED <<pc, running, choice, supplied, cinFail, iter, out, step,
                   objs, conns, nextId, lastConnect, ncalls>>

\* txn.commit().  A commit that throws has not committed: the library has
\* either already marked the transaction aborted or left it active.
Commit ==
    /\ frame # <<>>
    /\ frame[1].stage = "commit"
    /\ \E r \in {"ok", "aborted", "active"} :
         /\ frame' = <<IF r = "ok"
                       THEN [frame[1] EXCEPT !.txn = "committed",
                                             !.commits = @ + 1,
                                             !.stage = "op_return"]
                       ELSE IF r = "aborted"
                       THEN [Throw(frame[1], "commit", "wrapper_catch")
                               EXCEPT !.txn = "aborted", !.rollbacks = @ + 1]
                       ELSE Throw(frame[1], "commit", "wrapper_catch")>>
         /\ db' = IF r = "ok"
                  THEN Apply(db, frame[1].sql, frame[1].bound)
                  ELSE db
    /\ UNCHANGED <<pc, running, choice, supplied, cinFail, iter, out, step,
                   objs, conns, nextId, lastConnect, ncalls>>

\* txn.abort(): rolls an active transaction back, does nothing to one that
\* is already aborted.
Abort(f) ==
    IF f.txn = "active"
    THEN [f EXCEPT !.txn = "aborted", !.rollbacks = @ + 1]
    ELSE f

\* Variant: the catch block of executeNonQuery rethrows without txn.abort()
CatchInWrapperNoAbort(f) ==
    [f EXCEPT !.logged = Append(@, WrapperErrMsg(f.method)),
              !.stage = "op_catch"]

\* The catch block of executeQuery / executeNonQuery: log, (abort,) rethrow
CatchInWrapper(f) ==
    LET g == [f EXCEPT !.logged = Append(@, WrapperErrMsg(f.method)),
                       !.stage = "op_catch"]
    IN  IF f.method = "executeNonQuery" THEN Abort(g) ELSE g

WrapperCatch ==
    /\ frame # <<>>
    /\ frame[1].stage = "wrapper_catch"
    /\ frame' = <<CatchInWrapper(frame[1])>>
    /\ UNCHANGED <<pc, running, choice, supplied, cinFail, iter, out, step,
                   objs, conns, nextId, db, lastConnect, ncalls>>

\* Variant: the operations catch the statement's errors only, not a failure
\* to open the transaction
CatchesStatementErrorsOnly(op, exc) == exc # "begin"

\* catch (const std::exception& e) of a role operation: every exception the
\* wrapper throws derives from std::exception.
Catches(op, exc) == TRUE

\* The catch block of a role operation: log the operation's message and
\* swallow the exception.
OpCatch ==
    /\ frame # <<>>
    /\ frame[1].stage = "op_catch"
    /\ frame' = <<IF Catches(frame[1].op, frame[1].exc)
                  THEN [frame[1] EXCEPT !.logged = Append(@, frame[1].errmsg),
                                        !.exc = "none",
                                        !.stage = "op_return"]
                  ELSE [frame[1] EXCEPT !.stage = "escaped"]>>
    /\ UNCHANGED <<pc, running, choice, supplied, cinFail, iter, out, step,
                   objs, conns, nextId, db, lastConnect, ncalls>>

\* The role operation ends: it returns to its caller, or an exception it did
\* not catch leaves it, and nothing in the callers catches it either.
OpLeave ==
    /\ frame # <<>>
    /\ frame[1].stage \in {"op_return", "escaped"}
    /\ frame' = <<>>
    /\ pc' = IF frame[1].stage = "escaped" THEN "Terminated" ELSE pc
    /\ UNCHANGED <<running, choice, supplied, cinFail, iter, out, step, objs,
                   conns, nextId, db, lastConnect, ncalls>>

-----------------------------------------------------------------------------
(* main() *)

showMainMenu ==
    << <<"1. Login as Admin">>, <<"2. Login as Manager">>,
       <<"3. Login as Customer">>, <<"4. Exit">> >>

InvalidLine == <<"Invalid choice. Please try again.">>

\* What the user can type at a prompt: the four menu numbers, other
\* integers, a token that is no number, a number too large for int, nothing
SuppliedInts == {-1} \cup (0 .. 5)

Inputs ==
    {[kind |-> "int", val |-> v] : v \in SuppliedInts}
        \cup {[kind |-> k, val |-> 0] : k \in {"token", "overflow", "eof"}}

\* The values an int that was never written can hold: any; one is kept for
\* each branch of the switch
Indeterminate == 0 .. 4

\* std::cin >> choice, with choice declared uninitialised in the loop body.
\* A stream that has failed reads nothing and leaves choice unwritten; so
\* does end of input.  A token that is no number stores 0, a number too
\* large stores the largest int; both set failbit, which nothing clears.
ReadChoice(fail, in, junk) ==
    IF fail THEN [choice |-> junk, fail |-> TRUE]
    ELSE CASE in.kind = "int" -> [choice |-> in.val, fail |-> FALSE]
           [] in.kind = "token" -> [choice |-> 0, fail |-> TRUE]
           [] in.kind = "overflow" -> [choice |-> INT_MAX, fail |-> TRUE]
           [] in.kind = "eof" -> [choice |-> junk, fail |-> TRUE]

RoleOfChoice(c) ==
    CASE c = 1 -> "Admin" [] c = 2 -> "Manager" [] c = 3 -> "Customer"

\* Variant: the customer's item is added before the order is created
CaseBlockItemFirst(c) ==
    CASE c = 1 -> <<[op |-> "addProduct", args |-> <<"Product1", 9999, 100>>],
                    [op |-> "deleteProduct", args |-> <<1>>]>>
      [] c = 2 -> <<[op |-> "approveOrder", args |-> <<1>>]>>
      [] c = 3 -> <<[op |-> "addToOrder", args |-> <<1, 101, 2>>],
                    [op |-> "createOrder", args |-> <<>>]>>

\* The calls of each case block, after the declaration of the role object
CaseBlock(c) ==
    CASE c = 1 -> <<[op |-> "addProduct", args |-> <<"Product1", 9999, 100>>],
                    [op |-> "deleteProduct", args |-> <<1>>]>>
      [] c = 2 -> <<[op |-> "approveOrder", args |-> <<1>>]>>
      [] c = 3 -> <<[op |-> "createOrder", args |-> <<>>],
                    [op |-> "addToOrder", args |-> <<1, 101, 2>>]>>

\* Variant: the case blocks are guarded and the loop goes on
CaughtInMain == "ShowingMenu"

\* main() has no try block: an exception thrown in a case block ends the
\* program.
UncaughtInMain == "Terminated"

ShowMenuAndRead ==
    /\ pc = "ShowingMenu"
    /\ running
    /\ iter < MaxIter
    /\ \E in \in Inputs, junk \in Indeterminate :
         /\ supplied' = in
         /\ choice' = ReadChoice(cinFail, in, junk).choice
         /\ cinFail' = ReadChoice(cinFail, in, junk).fail
    /\ out' = showMainMenu
    /\ iter' = iter + 1
    /\ pc' = "Switch"
    /\ UNCHANGED <<running, step, objs, conns, nextId, frame, db, lastConnect,
                   ncalls>>

\* case 1, 2, 3: the declaration of the role object
DispatchRole ==
    /\ pc = "Switch"
    /\ choice \in {1, 2, 3}
    /\ \E ok \in BOOLEAN :
         /\ Construct(RoleOfChoice(choice), ok)
         /\ pc' = IF ok THEN "Running" ELSE UncaughtInMain
    /\ step' = 1
    /\ UNCHANGED <<running, choice, supplied, cinFail, iter, out, frame, db,
                   ncalls>>

\* case 4
DispatchExit ==
    /\ pc = "Switch"
    /\ choice = 4
    /\ running' = FALSE
    /\ pc' = "Exited"
    /\ UNCHANGED <<choice, supplied, cinFail, iter, out, step, objs, conns,
                   nextId, frame, db, lastConnect, ncalls>>

\* default
DispatchInvalid ==
    /\ pc = "Switch"
    /\ choice \notin {1, 2, 3, 4}
    /\ out' = Append(out, InvalidLine)
    /\ pc' = "ShowingMenu"
    /\ UNCHANGED <<running, choice, supplied, cinFail, iter, step, objs, conns,
                   nextId, frame, db, lastConnect, ncalls>>

\* The next call of the case block, on the role object of the block
MainCall ==
    /\ pc = "Running"
    /\ frame = <<>>
    /\ step <= Len(CaseBlock(choice))
    /\ \E o \in DOMAIN objs :
         OpEnter(o, CaseBlock(choice)[step].op, CaseBlock(choice)[step].args,
                 out)
    /\ step' = step + 1
    /\ UNCHANGED <<pc, running, choice, supplied, cinFail, iter, conns, nextId,
                   db, lastConnect, ncalls>>

\* The closing brace of the case block, then break
ScopeExit ==
    /\ pc = "Running"
    /\ frame = <<>>
    /\ step > Len(CaseBlock(choice))
    /\ \E o \in DOMAIN objs : Destroy(o)
    /\ pc' = "ShowingMenu"
    /\ UNCHANGED <<running, choice, supplied, cinFail, iter, out, step, nextId,
                   frame, db, lastConnect, ncalls>>

Init ==
    /\ pc = "ShowingMenu"
    /\ running = TRUE
    /\ choice = 0
    /\ supplied = [kind |-> "none", val |-> 0]
    /\ cinFail = FALSE
    /\ iter = 0
    /\ out = <<>>
    /\ step = 1
    /\ objs = <<>>
    /\ conns = {}
    /\ nextId = 1
    /\ frame = <<>>
    /\ db \in InitDBs
    /\ lastConnect = "none"
    /\ ncalls = 0

Next ==
    \/ ShowMenuAndRead
    \/ DispatchRole
    \/ DispatchExit
    \/ DispatchInvalid
    \/ MainCall
    \/ ScopeExit
    \/ TxnOpen
    \/ Prepare
    \/ Exec
    \/ Commit
    \/ WrapperCatch
    \/ OpCatch
    \/ OpLeave

Spec == Init /\ [][Next]_vars

-----------------------------------------------------------------------------
(* The classes' interface under an arbitrary caller *)

\* The calls the caller chooses from: every member function of every class.
\* The caller reads the output off before each call.
TestCalls ==
    <<[op |-> "viewOrderStatus", args |-> <<1>>],
      [op |-> "createOrder", args |-> <<>>],
      [op |-> "cancelOrder", args |-> <<1>>],
      [op |-> "cancelOrder", args |-> <<2>>],
      [op |-> "returnOrder", args |-> <<1>>],
      [op |-> "approveOrder", args |-> <<1>>],
      [op |-> "addProduct", args |-> <<"Widget", 999, 10>>],
      [op |-> "deleteProduct", args |-> <<1>>],
      [op |-> "addToOrder", args |-> <<1, 101, 2>>],
      [op |-> "removeFromOrder", args |-> <<1, 101>>]>>

DriverConstruct ==
    /\ pc = "Driver"
    /\ frame = <<>>
    /\ nextId <= MaxObjs
    /\ \E role \in Roles, ok \in BOOLEAN : Construct(role, ok)
    /\ UNCHANGED <<pc, running, choice, supplied, cinFail, iter, out, step,
                   frame, db, ncalls>>

DriverCall ==
    /\ pc = "Driver"
    /\ frame = <<>>
    /\ ncalls < MaxCalls
    /\ \E o \in DOMAIN objs, i \in 1 .. Len(TestCalls) :
         /\ TestCalls[i].op \in RoleOps(objs[o].role)
         /\ OpEnter(o, TestCalls[i].op, TestCalls[i].args, <<>>)
    /\ ncalls' = ncalls + 1
    /\ UNCHANGED <<pc, running, choice, supplied, cinFail, iter, step, conns,
                   nextId, db, lastConnect>>

DriverDestroy ==
    /\ pc = "Driver"
    /\ frame = <<>>
    /\ \E o \in DOMAIN objs : Destroy(o)
    /\ UNCHANGED <<pc, running, choice, supplied, cinFail, iter, out, step,
                   nextId, frame, db, lastConnect, ncalls>>

InitOps ==
    /\ pc = "Driver"
    /\ running = TRUE
    /\ choice = 0
    /\ supplied = [kind |-> "none", val |-> 0]
    /\ cinFail = FALSE
    /\ iter = 0
    /\ out = <<>>
    /\ step = 1
    /\ objs = <<>>
    /\ conns = {}
    /\ nextId = 1
    /\ frame = <<>>
    /\ db \in InitDBs
    /\ lastConnect = "none"
    /\ ncalls = 0

NextOps ==
    \/ DriverConstruct
    \/ DriverCall
    \/ DriverDestroy
    \/ TxnOpen
    \/ Prepare
    \/ Exec
    \/ Commit
    \/ WrapperCatch
    \/ OpCatch
    \/ OpLeave

SpecOps == InitOps /\ [][NextOps]_vars

-----------------------------------------------------------------------------
(* Properties *)

\* The wrapper call of the current operation has returned or thrown
CallEnded == frame # <<>> /\ frame[1].stage \in {"op_catch", "op_return", "escaped"}

\* C1 as stated: every executeNonQuery call, whatever step fails (opening the
\* transaction included), ends with exactly one of a commit and a rollback.
C1_Original ==
    (CallEnded /\ frame[1].method = "executeNonQuery")
        => frame[1].commits + frame[1].rollbacks = 1

\* C1, amended: an executeNonQuery call never both commits and rolls back; a
\* call whose transaction was opened ends with exactly one commit (when no
\* step failed) or exactly one rollback (when prepare, bind, exec or commit
\* failed); a call whose transaction could not be opened throws with
\* neither, there being no transaction.
C1_CommitXorRollback ==
    (frame # <<>> /\ frame[1].method = "executeNonQuery") =>
        /\ frame[1].commits + frame[1].rollbacks <= 1
        /\ CallEnded =>
             IF frame[1].err = "begin"
             THEN /\ frame[1].commits = 0
                  /\ frame[1].rollbacks = 0
                  /\ frame[1].txn = "none"
             ELSE /\ frame[1].commits + frame[1].rollbacks = 1
                  /\ (frame[1].commits = 1) = (frame[1].err = "none")
                  /\ frame[1].txn =
                        IF frame[1].err = "none" THEN "committed" ELSE "aborted"

C1_Witness ==
    /\ frame # <<>>
    /\ frame[1].method = "executeNonQuery"
    /\ frame[1].stage = "op_return"
    /\ frame[1].err = "commit"
    /\ frame[1].rollbacks = 1
    /\ frame[1].commits = 0

\* C2: an error the wrapper raises during any operation of any role is
\* logged by the operation and never leaves it: the operation returns
\* normally and its caller goes on.
C2_ErrorsSwallowed ==
    /\ pc # "Terminated"
    /\ frame # <<>> => frame[1].stage # "escaped"
    /\ (frame # <<>> /\ frame[1].stage = "op_return" /\ frame[1].err # "none") =>
          /\ frame[1].exc = "none"
          /\ frame[1].logged # <<>>
          /\ frame[1].logged[Len(frame[1].logged)] = frame[1].errmsg

C2_Witness ==
    /\ frame # <<>>
    /\ frame[1].op = "viewOrderStatus"
    /\ frame[1].stage = "op_return"
    /\ frame[1].err = "exec"
    /\ frame[1].logged = <<"Error executing query", "Error viewing order status">>

\* C3: a connection that cannot be opened ends the program: no wrapper and
\* no role object exists, no operation was issued for the choice, and the
\* menu is not shown again.
C3_ConnectionErrorFatal ==
    /\ lastConnect = "failed" => pc = "Terminated"
    /\ pc = "Terminated" =>
          /\ lastConnect = "failed"
          /\ choice \in {1, 2, 3}
          /\ DOMAIN objs = {}
          /\ conns = {}
          /\ frame = <<>>
          /\ out = showMainMenu
          /\ ~ENABLED Next

C3_Witness == pc = "Terminated" /\ choice = 2 /\ lastConnect = "failed"

SuppliedValid == supplied.kind = "int" /\ supplied.val \in {1, 2, 3, 4}

\* C4 as stated: on every input that is not 1, 2, 3 or 4 (another integer, a
\* token that is no number, end of input) the dispatcher prints the
\* invalid-choice message, issues no database operation and shows the menu
\* again.
C4_Original ==
    [][(pc = "Switch" /\ ~SuppliedValid) =>
          /\ pc' = "ShowingMenu"
          /\ out' = Append(out, InvalidLine)
          /\ UNCHANGED <<objs, conns, frame, db, running>>]_vars

\* C5 as stated: whatever came before, the input 4 at the next prompt takes
\* the dispatcher to Exited, with no role object, no database operation and
\* no further output.
C5_Original ==
    [][(pc = "Switch" /\ supplied = [kind |-> "int", val |-> 4]) =>
          /\ pc' = "Exited"
          /\ running' = FALSE
          /\ UNCHANGED <<out, objs, conns, frame, db>>]_vars

\* C6: every call of a role operation passes exactly one statement to the
\* wrapper of the object it is called on (executeQuery for viewOrderStatus,
\* executeNonQuery otherwise), whether the statement succeeds or fails, and
\* no other step passes any.
C6_Step ==
    IF frame = <<>> /\ frame' # <<>>
    THEN /\ frame'[1].self \in DOMAIN objs
         /\ objs' = [objs EXCEPT ![frame'[1].self].issued = @ + 1]
         /\ frame'[1].conn = objs[frame'[1].self].conn
         /\ frame'[1].conn \in conns
         /\ frame'[1].method =
               IF frame'[1].op = "viewOrderStatus"
               THEN "executeQuery" ELSE "executeNonQuery"
    ELSE /\ \A o \in DOMAIN objs \cap DOMAIN objs' :
               objs'[o].issued = objs[o].issued
         /\ \A o \in DOMAIN objs' \ DOMAIN objs : objs'[o].issued = 0
         /\ (frame # <<>> /\ frame' # <<>>) =>
               /\ frame'[1].self = frame[1].self
               /\ frame'[1].conn = frame[1].conn
               /\ frame'[1].sql = frame[1].sql
               /\ frame'[1].params = frame[1].params

C6_OneStatementPerCall == [][C6_Step]_vars

C6_Witness ==
    /\ frame # <<>>
    /\ frame[1].stage = "op_return"
    /\ frame[1].err = "exec"
    /\ frame[1].self = 2
    /\ DOMAIN objs = {1, 2}
    /\ objs[2].issued = 1
    /\ objs[1].issued = 1

IsWidgetCall ==
    /\ frame # <<>>
    /\ frame[1].op = "addProduct"
    /\ frame[1].args = <<"Widget", 999, 10>>

\* C7 as stated: Admin.addProduct("Widget", 9.99, 10) binds ("Widget",
\* "9.99", "10").
C7_Original ==
    IsWidgetCall =>
        /\ frame[1].sql = SqlInsertProduct
        /\ frame[1].params = <<"Widget", "9.99", "10">>

\* C7, amended: Admin.addProduct("Widget", 9.99, 10) issues one insert with
\* exactly three bound parameters, in this order: "Widget", the price as
\* std::to_string renders it, "9.990000", and "10".
C7_AddProductParams ==
    IsWidgetCall =>
        /\ frame[1].method = "executeNonQuery"
        /\ frame[1].sql = SqlInsertProduct
        /\ frame[1].params = <<"Widget", "9.990000", "10">>
        /\ objs[frame[1].self].role = "Admin"
        /\ frame[1].stage \in {"exec", "commit"} =>
              frame[1].bound = <<"Widget", "9.990000", "10">>

C7_Witness == IsWidgetCall /\ frame[1].stage = "commit"

\* The statements the claim lists for each menu choice
C8_Expected(c) ==
    CASE c = 1 -> <<[sql |-> SqlInsertProduct,
                     params |-> <<"Product1", "99.990000", "100">>],
                    [sql |-> SqlDeleteProduct, params |-> <<"1">>]>>
      [] c = 2 -> <<[sql |-> SqlUpdateStatus, params |-> <<"approved", "1">>]>>
      [] c = 3 -> <<[sql |-> SqlInsertOrder, params |-> <<"pending">>],
                    [sql |-> SqlInsertItem, params |-> <<"1", "101", "2">>]>>

C8_Running ==
    pc = "Running" =>
        /\ choice \in {1, 2, 3}
        /\ DOMAIN objs = {nextId - 1}
        /\ objs[nextId - 1].role = RoleOfChoice(choice)
        /\ objs[nextId - 1].issued = step - 1
        /\ step <= Len(C8_Expected(choice)) + 1
        /\ frame # <<>> =>
              /\ frame[1].self = nextId - 1
              /\ frame[1].sql = C8_Expected(choice)[step - 1].sql
              /\ frame[1].params = C8_Expected(choice)[step - 1].params
        /\ (frame = <<>> /\ step <= Len(C8_Expected(choice))) => ENABLED MainCall

\* C8: each choice 1, 2, 3 constructs a fresh role object and issues its
\* fixed statements in their fixed order, whether or not earlier ones
\* failed, and leaves the case block only after the last of them.
C8_FixedSequence ==
    /\ []C8_Running
    /\ [][(pc = "Running" /\ pc' = "ShowingMenu") =>
             /\ frame = <<>>
             /\ objs[nextId - 1].issued = Len(C8_Expected(choice))]_vars
    /\ [][nextId' >= nextId]_vars

C8_Witness ==
    /\ pc = "Running"
    /\ choice = 3
    /\ frame # <<>>
    /\ frame[1].op = "addToOrder"
    /\ frame[1].stage = "commit"
    /\ db.orders = <<>>

\* C9: at most one connection is open; none is open while the menu is shown,
\* the choice is being read or dispatched, or the program has ended; the
\* connection in use is the one opened for the current choice.
C9_OneConnection ==
    /\ Cardinality(conns) <= 1
    /\ conns \subseteq {nextId - 1}
    /\ conns = {objs[o].conn : o \in DOMAIN objs}
    /\ pc \in {"ShowingMenu", "Switch", "Exited", "Terminated"} =>
          (conns = {} /\ DOMAIN objs = {})
    /\ frame # <<>> => (frame[1].conn \in conns /\ frame[1].conn = nextId - 1)

C9_Witness ==
    /\ pc = "Running"
    /\ iter = 2
    /\ conns = {2}
    /\ frame # <<>>
    /\ frame[1].conn = 2

Committing ==
    /\ frame # <<>>
    /\ frame[1].stage = "commit"
    /\ frame' # <<>>
    /\ frame'[1].commits = 1

C10_Target(op) ==
    CASE op = "cancelOrder" -> "canceled"
      [] op = "returnOrder" -> "returned"
      [] op = "approveOrder" -> "approved"

C10_Step ==
    /\ Len(db'.orders) >= Len(db.orders)
    /\ db'.orders # db.orders => Committing
    /\ Len(db'.orders) > Len(db.orders) =>
          /\ frame[1].op = "createOrder"
          /\ db'.orders = Append(db.orders, "pending")
    /\ (Committing /\ frame[1].op = "createOrder") =>
          db'.orders = Append(db.orders, "pending")
    /\ (Committing /\ frame[1].op \in {"cancelOrder", "returnOrder", "approveOrder"}) =>
          db'.orders =
             IF frame[1].args[1] \in DOMAIN db.orders
             THEN [db.orders EXCEPT ![frame[1].args[1]] = C10_Target(frame[1].op)]
             ELSE db.orders

\* C10: every order has a status in {pending, approved, canceled, returned};
\* an order is created only by createOrder, with status pending; a
\* successful cancelOrder, returnOrder, approveOrder sets the status of an
\* existing order to canceled, returned, approved whatever it was; no
\* operation removes an order.
C10_OrderStatuses ==
    /\ [](\A i \in DOMAIN db.orders : db.orders[i] \in Statuses)
    /\ [][C10_Step]_vars

C10_Witness ==
    /\ frame # <<>>
    /\ frame[1].op = "approveOrder"
    /\ frame[1].commits = 1
    /\ db.orders = <<"approved", "pending">>
    /\ ncalls = 2

====
